---- MODULE Spec2Model ----
(***************************************************************************)
(* Model of src/src/function_calling.py: the arithmetic tools, the tool    *)
(* executor execute_function and the chat loop of main() that dispatches   *)
(* the model's tool calls and feeds the results back; and of the loops of  *)
(* main() of src/src/main.py, src/src/images.py and src/src/speech.py.     *)
(***************************************************************************)
EXTENDS Integers, Sequences, FiniteSets, TLC

VARIABLES
    api_key,          \* main: whether OPENAI_API_KEY is set (line 143)
    pc,               \* main: where the control is
    messages,         \* main: the conversation history (line 163)
    user_input,       \* main: the stripped line last read (line 173), its characters
    response_message, \* main: the first response of the turn (line 196)
    idx,              \* main: position of the for loop of line 206 in tool_calls
    function_name,    \* main: local of line 207
    function_args,    \* main: local of line 208, the decoded arguments
    function_result,  \* main: local of line 213
    turns,            \* history: turns started (non-empty, non-exit inputs)
    calls_left,       \* environment: tool calls the provider may still request
    turn_start,       \* history: Len(messages) when the current turn's input was read
    first_calls,      \* history: tool calls of the turn's first response, -1 before it
    requests,         \* history: model requests issued in the current turn
    followups,        \* history: follow-up requests issued in the current turn
    executions,       \* history: calls of execute_function in the current turn
    total_requests,   \* history: model requests issued in the session
    errors,           \* output: the errors printed (line 148, line 245), with their turn
    mode,             \* which program runs: function_calling, chat, image, speech
    client,           \* main: whether the OpenAI client was created (line 152)
    last_request,     \* environment: the last chat completion request received
    current_voice     \* speech.py main: the voice (line 236), "" before it is set

vars == <<api_key, pc, messages, user_input, response_message, idx,
          function_name, function_args, function_result, turns, calls_left,
          turn_start, first_calls, requests, followups, executions, total_requests,
          errors, mode, client, last_request, current_voice>>

-----------------------------------------------------------------------------
(* Bounds of the model *)

\* turns (inputs that are neither empty nor an exit word) per session
MaxTurns == 2
\* tool calls the provider requests over one session
MaxCalls == 2
\* tool calls the provider requests over one session when any of the four
\* programs may be the one started
MaxReplCalls == 1
\* numeric arguments range over -MaxNum..MaxNum and the numbers of the examples
MaxNum == 2
\* fractional digits of a float's text that are kept
MaxFrac == 4

-----------------------------------------------------------------------------
(* Python values: int, float (a reduced fraction n/d), str, None *)

PyInt(n) == [t |-> "int", n |-> n, d |-> 1, s |-> ""]
PyFloat(n, d) == [t |-> "float", n |-> n, d |-> d, s |-> ""]
PyStr(s) == [t |-> "str", n |-> 0, d |-> 1, s |-> s]
PyNone == [t |-> "none", n |-> 0, d |-> 1, s |-> ""]

Abs(n) == IF n < 0 THEN -n ELSE n

RECURSIVE Gcd(_, _)
Gcd(a, b) == IF b = 0 THEN a ELSE Gcd(b, a % b)

\* the quotient a / b of two ints (b # 0) as a float; the rounding of the
\* quotient to a double is not represented, the value is the exact fraction
TrueDiv(a, b) ==
    LET g == Gcd(Abs(a), Abs(b))
        sgn == IF b < 0 THEN -1 ELSE 1
    IN PyFloat(sgn * (a \div g), Abs(b) \div g)

RECURSIVE Repeat(_, _)
Repeat(s, n) ==
    IF n <= 0 THEN ""
    ELSE IF n % 2 = 0 THEN LET half == Repeat(s, n \div 2) IN half \o half
    ELSE s \o Repeat(s, n - 1)

\* the outcome of a call: a returned value or a raised exception
Returned(v) == [raised |-> FALSE, exc |-> "", value |-> v]
Raised(e) == [raised |-> TRUE, exc |-> e, value |-> PyNone]

-----------------------------------------------------------------------------
(* The arithmetic functions, with Python's operators on the value types *)

add(a, b) ==
    IF a.t = "int" /\ b.t = "int" THEN Returned(PyInt(a.n + b.n))
    ELSE IF a.t = "str" /\ b.t = "str" THEN Returned(PyStr(a.s \o b.s))
    ELSE Raised("TypeError")

\* subtract with its operands exchanged
subtract_swapped(a, b) ==
    IF a.t = "int" /\ b.t = "int" THEN Returned(PyInt(b.n - a.n))
    ELSE Raised("TypeError")

subtract(a, b) ==
    IF a.t = "int" /\ b.t = "int" THEN Returned(PyInt(a.n - b.n))
    ELSE Raised("TypeError")

multiply(a, b) ==
    IF a.t = "int" /\ b.t = "int" THEN Returned(PyInt(a.n * b.n))
    ELSE IF a.t = "str" /\ b.t = "int" THEN Returned(PyStr(Repeat(a.s, b.n)))
    ELSE IF a.t = "int" /\ b.t = "str" THEN Returned(PyStr(Repeat(b.s, a.n)))
    ELSE Raised("TypeError")

DivisionByZeroText == "Error: Division by zero"

\* divide without the test of line 30
divide_unguarded(a, b) ==
    IF a.t = "int" /\ b.t = "int"
    THEN IF b.n = 0 THEN Raised("ZeroDivisionError") ELSE Returned(TrueDiv(a.n, b.n))
    ELSE Raised("TypeError")

divide(a, b) ==
    IF b.t = "int" /\ b.n = 0 THEN Returned(PyStr(DivisionByZeroText))
    ELSE IF a.t = "int" /\ b.t = "int" THEN Returned(TrueDiv(a.n, b.n))
    ELSE Raised("TypeError")

\* FUNCTION_TOOLS: the names advertised to the model, in order
FUNCTION_TOOLS == <<"add", "subtract", "multiply", "divide">>

UnknownFunctionText(name) == "Error: Unknown function " \o name

-----------------------------------------------------------------------------
(* json.loads on a flat token sequence *)

Tok(k) == [k |-> k, v |-> PyNone]
TokVal(v) == [k |-> "value", v |-> v]

\* the outcome of json.loads: raised, or a dict d, or a scalar v
JsonRaised == [raised |-> TRUE, isDict |-> FALSE, d |-> <<>>, v |-> PyNone]
JsonDict(d) == [raised |-> FALSE, isDict |-> TRUE, d |-> d, v |-> PyNone]
JsonScalar(v) == [raised |-> FALSE, isDict |-> FALSE, d |-> <<>>, v |-> v]

\* members of an object from position i: key ":" value, then "," or the
\* closing "}" which must be the last token; a repeated key keeps the last value
RECURSIVE ParseMembers(_, _, _)
ParseMembers(toks, i, acc) ==
    IF i + 3 > Len(toks) THEN JsonRaised
    ELSE IF ~(toks[i].k = "value" /\ toks[i].v.t = "str") THEN JsonRaised
    ELSE IF toks[i + 1].k # ":" THEN JsonRaised
    ELSE IF toks[i + 2].k # "value" THEN JsonRaised
    ELSE LET key == toks[i].v.s
             rest == [k \in DOMAIN acc \ {key} |-> acc[k]]
             got == (key :> toks[i + 2].v) @@ rest
         IN IF toks[i + 3].k = "}"
            THEN IF i + 3 = Len(toks) THEN JsonDict(got) ELSE JsonRaised
            ELSE IF toks[i + 3].k = ","
            THEN ParseMembers(toks, i + 4, got)
            ELSE JsonRaised

json_loads(toks) ==
    IF Len(toks) = 0 THEN JsonRaised
    ELSE IF toks[1].k = "value"
    THEN IF Len(toks) = 1 THEN JsonScalar(toks[1].v) ELSE JsonRaised
    ELSE IF toks[1].k = "{"
    THEN IF Len(toks) = 2 /\ toks[2].k = "}" THEN JsonDict(<<>>)
         ELSE ParseMembers(toks, 2, <<>>)
    ELSE JsonRaised

-----------------------------------------------------------------------------
(* execute_function *)

\* arguments[key]: TypeError when arguments is no dict, KeyError when the
\* key is missing
GetItem(arguments, key) ==
    IF ~arguments.isDict THEN Raised("TypeError")
    ELSE IF key \notin DOMAIN arguments.d THEN Raised("KeyError")
    ELSE Returned(arguments.d[key])

\* execute_function without the branch of lines 131-132
execute_function_no_multiply(name, arguments) ==
    LET a == GetItem(arguments, "a")
        b == GetItem(arguments, "b")
        ok == ~a.raised /\ ~b.raised
        exc == IF a.raised THEN a ELSE b
    IN IF name = "add"
       THEN IF ok THEN add(a.value, b.value) ELSE exc
       ELSE IF name = "subtract"
       THEN IF ok THEN subtract(a.value, b.value) ELSE exc
       ELSE IF name = "divide"
       THEN IF ok THEN divide(a.value, b.value) ELSE exc
       ELSE Returned(PyStr(UnknownFunctionText(name)))

\* f(arguments["a"], arguments["b"]) per registered name: the name is
\* compared first, the subscripts are evaluated left to right and the first
\* exception propagates; any other name gives the error text
execute_function(name, arguments) ==
    LET a == GetItem(arguments, "a")
        b == GetItem(arguments, "b")
        ok == ~a.raised /\ ~b.raised
        exc == IF a.raised THEN a ELSE b
    IN IF name = "add"
       THEN IF ok THEN add(a.value, b.value) ELSE exc
       ELSE IF name = "subtract"
       THEN IF ok THEN subtract(a.value, b.value) ELSE exc
       ELSE IF name = "multiply"
       THEN IF ok THEN multiply(a.value, b.value) ELSE exc
       ELSE IF name = "divide"
       THEN IF ok THEN divide(a.value, b.value) ELSE exc
       ELSE Returned(PyStr(UnknownFunctionText(name)))

-----------------------------------------------------------------------------
(* str() of a result *)

Digit(n) == <<"0", "1", "2", "3", "4", "5", "6", "7", "8", "9">>[n + 1]

RECURSIVE NatStr(_)
NatStr(n) == IF n < 10 THEN Digit(n) ELSE NatStr(n \div 10) \o Digit(n % 10)

IntStr(n) == IF n < 0 THEN "-" \o NatStr(-n) ELSE NatStr(n)

\* the digits after the point of r/d (0 <= r < d), by long division; digits
\* past the k-th are dropped
RECURSIVE FracStr(_, _, _)
FracStr(r, d, k) ==
    IF r = 0 \/ k = 0 THEN ""
    ELSE Digit((r * 10) \div d) \o FracStr((r * 10) % d, d, k - 1)

FloatStr(n, d) ==
    LET m == Abs(n)
        frac == FracStr(m % d, d, MaxFrac)
    IN (IF n < 0 THEN "-" ELSE "") \o NatStr(m \div d) \o "."
       \o (IF frac = "" THEN "0" ELSE frac)

str(v) ==
    IF v.t = "int" THEN IntStr(v.n)
    ELSE IF v.t = "float" THEN FloatStr(v.n, v.d)
    ELSE IF v.t = "str" THEN v.s
    ELSE "None"

-----------------------------------------------------------------------------
(* Input lines: sequences of characters, with str.strip and str.lower *)

IsSpace(c) == c \in {" ", "\t"}

RECURSIVE LStrip(_)
LStrip(cs) ==
    IF cs # <<>> /\ IsSpace(Head(cs)) THEN LStrip(Tail(cs)) ELSE cs

RECURSIVE RStrip(_)
RStrip(cs) ==
    IF cs # <<>> /\ IsSpace(cs[Len(cs)])
    THEN RStrip(SubSeq(cs, 1, Len(cs) - 1)) ELSE cs

strip(cs) == RStrip(LStrip(cs))

UpperCase ==
    <<"A", "B", "C", "D", "E", "F", "G", "H", "I", "J", "K", "L", "M",
      "N", "O", "P", "Q", "R", "S", "T", "U", "V", "W", "X", "Y", "Z">>
LowerCase ==
    <<"a", "b", "c", "d", "e", "f", "g", "h", "i", "j", "k", "l", "m",
      "n", "o", "p", "q", "r", "s", "t", "u", "v", "w", "x", "y", "z">>

\* str.lower on the letters of the input lines
LowerChar(c) ==
    IF \E k \in DOMAIN UpperCase : UpperCase[k] = c
    THEN LowerCase[CHOOSE k \in DOMAIN UpperCase : UpperCase[k] = c]
    ELSE c

lower(cs) == [k \in DOMAIN cs |-> LowerChar(cs[k])]

\* the str of a sequence of characters
RECURSIVE Join(_)
Join(cs) == IF cs = <<>> THEN "" ELSE Head(cs) \o Join(Tail(cs))

\* s is a prefix of t
IsPrefix(s, t) == Len(s) <= Len(t) /\ SubSeq(t, 1, Len(s)) = s

ExitCommands == {"quit", "exit", "bye"}

-----------------------------------------------------------------------------
(* Messages and tool calls *)

NoId == ""

Msg(role, content, tool_calls, tool_call_id) ==
    [role |-> role, content |-> content, tool_calls |-> tool_calls,
     tool_call_id |-> tool_call_id]

SystemMessage ==
    Msg("system", "You are a helpful assistant with access to arithmetic functions.",
        <<>>, NoId)

UserMessage(text) == Msg("user", text, <<>>, NoId)

AssistantMessage(text) == Msg("assistant", text, <<>>, NoId)

\* the dict appended at lines 217-221
ToolMessage(tool_call, result) == Msg("tool", str(result), <<>>, tool_call.id)

ToolCall(id, name, arguments) == [id |-> id, name |-> name, arguments |-> arguments]

\* the response before any was received
NoResponse == Msg("none", "", <<>>, NoId)

-----------------------------------------------------------------------------
(* The environment: input lines, argument blobs, the provider's responses *)

\* the lines the user types: empty, blank, exit words (in another case, with
\* blanks around), and a text
Lines ==
    { <<>>,
      <<" ", "\t">>,
      <<"q", "u", "i", "t">>,
      <<" ", "Q", "u", "i", "T", " ">>,
      <<"b", "y", "e">>,
      <<"1", "5", "+", "7", "?", " ">> }

Nums == (-MaxNum .. MaxNum) \cup {4, 7, 15, 100}

\* the values an argument may hold: numbers, a string, null
ArgValues == {PyInt(n) : n \in Nums} \cup {PyStr("x"), PyNone}

Member(key, v) == <<TokVal(PyStr(key)), Tok(":"), TokVal(v)>>

\* {"a": a, "b": b}
BlobAB(a, b) ==
    <<Tok("{")>> \o Member("a", a) \o <<Tok(",")>> \o Member("b", b) \o <<Tok("}")>>

\* {key: v}
BlobOne(key, v) == <<Tok("{")>> \o Member(key, v) \o <<Tok("}")>>

\* text that is no JSON: empty, an unclosed object, a missing colon
MalformedBlobs ==
    { <<>>,
      <<Tok("{")>> \o Member("a", PyInt(15)),
      <<Tok("{"), TokVal(PyStr("a")), TokVal(PyInt(15)), Tok("}")>> }

AllBlobs ==
    {BlobAB(a, b) : a \in ArgValues, b \in ArgValues}
    \cup {BlobOne(key, v) : key \in {"a", "b"}, v \in ArgValues}
    \cup { <<Tok("{"), Tok("}")>>, <<TokVal(PyInt(15))>> }
    \cup MalformedBlobs

\* the registered names, a name in another case, and a name never registered
AllNames == {"add", "subtract", "multiply", "divide", "Add", "power"}

IdOf(k) == "call_" \o IntStr(k)

\* the tool calls the provider requests in the dialogue: a valid call, a
\* division by zero, an unknown tool, a missing argument, an undecodable blob
DialogueCalls ==
    << [name |-> "add", arguments |-> BlobAB(PyInt(15), PyInt(7))],
       [name |-> "divide", arguments |-> BlobAB(PyInt(15), PyInt(0))],
       [name |-> "power", arguments |-> BlobAB(PyInt(15), PyInt(7))],
       [name |-> "add", arguments |-> BlobOne("a", PyInt(15))],
       [name |-> "subtract", arguments |-> <<Tok("{")>> \o Member("a", PyInt(15))] >>

\* the tool_calls of a response: 1..n calls, ids unique within the response
ToolCallSeqs(n) ==
    UNION { { [j \in 1 .. k |->
                 ToolCall(IdOf(base + j), DialogueCalls[f[j]].name,
                          DialogueCalls[f[j]].arguments)]
              : f \in [1 .. k -> DOMAIN DialogueCalls], base \in {0, 1} }
            : k \in 1 .. n }

\* response.choices[0].message of the first request: a text, or tool calls
Responses(n) ==
    {AssistantMessage("reply")}
    \cup {Msg("assistant", "", calls, NoId) : calls \in ToolCallSeqs(n)}

-----------------------------------------------------------------------------
(* main *)

\* print(f"Error: {e}") at line 245, in the current turn
Printed(e) == [turn |-> turns, exc |-> e]

\* the arguments of client.chat.completions.create: the messages, the tools
\* and the tool_choice ("" where the argument is not passed)
Request(msgs, tools, tool_choice) ==
    [messages |-> msgs, tools |-> tools, tool_choice |-> tool_choice]

NoRequest == Request(<<>>, <<>>, "")

Init ==
    /\ api_key \in BOOLEAN
    /\ pc = "start"
    /\ messages = <<>>
    /\ user_input = <<>>
    /\ response_message = NoResponse
    /\ idx = 0
    /\ function_name = ""
    /\ function_args = JsonScalar(PyNone)
    /\ function_result = PyNone
    /\ turns = 0
    /\ calls_left = MaxCalls
    /\ turn_start = 0
    /\ first_calls = -1
    /\ requests = 0
    /\ followups = 0
    /\ executions = 0
    /\ total_requests = 0
    /\ errors = <<>>
    /\ mode = "function_calling"
    /\ client = FALSE
    /\ last_request = NoRequest
    /\ current_voice = ""

\* lines 143-168: without the key main returns, else the history is created
Startup ==
    /\ pc = "start"
    /\ IF api_key
       THEN /\ client' = TRUE
            /\ messages' = <<SystemMessage>>
            /\ pc' = "input"
            /\ UNCHANGED errors
       ELSE /\ errors' = Append(errors, Printed("NoAPIKey"))
            /\ pc' = "no_key"
            /\ UNCHANGED <<messages, client>>
    /\ UNCHANGED <<api_key, user_input, response_message, idx, function_name,
                   function_args, function_result, turns, calls_left, turn_start,
                   first_calls, requests, followups, executions, total_requests,
                   mode, last_request, current_voice>>

\* ReadInput with the exit test moved after the append of line 184
ReadInput_exit_after_append ==
    /\ pc = "input"
    /\ \/ \E line \in Lines :
         LET text == strip(line) IN
         /\ user_input' = text
         /\ IF text = <<>>
            THEN /\ pc' = "input"
                 /\ UNCHANGED <<messages, turns, turn_start, first_calls,
                                requests, followups, executions>>
            ELSE IF Join(lower(text)) \in ExitCommands
            THEN /\ messages' = Append(messages, UserMessage(Join(text)))
                 /\ pc' = "done"
                 /\ UNCHANGED <<turns, turn_start, first_calls,
                                requests, followups, executions>>
            ELSE /\ turns < MaxTurns
                 /\ messages' = Append(messages, UserMessage(Join(text)))
                 /\ pc' = "request"
                 /\ turns' = turns + 1
                 /\ turn_start' = Len(messages)
                 /\ first_calls' = -1
                 /\ requests' = 0
                 /\ followups' = 0
                 /\ executions' = 0
       \/ /\ pc' = "crashed"
          /\ UNCHANGED <<user_input, messages, turns, turn_start, first_calls,
                         requests, followups, executions>>
    /\ UNCHANGED <<api_key, response_message, idx, function_name, function_args,
                   function_result, calls_left, total_requests, errors,
                   mode, client, last_request, current_voice>>

\* lines 173-184: read a line; an exit word ends the loop, an empty line
\* prompts again, any other text is appended as the user message; or input()
\* raises (EOFError at the end of the input, KeyboardInterrupt), outside the
\* try statement, and the exception leaves main
ReadInput ==
    /\ pc = "input"
    /\ \/ \E line \in Lines :
         LET text == strip(line) IN
         /\ user_input' = text
         /\ IF Join(lower(text)) \in ExitCommands
            THEN /\ pc' = "done"
                 /\ UNCHANGED <<messages, turns, turn_start, first_calls,
                                requests, followups, executions>>
            ELSE IF text = <<>>
            THEN /\ pc' = "input"
                 /\ UNCHANGED <<messages, turns, turn_start, first_calls,
                                requests, followups, executions>>
            ELSE /\ turns < MaxTurns
                 /\ messages' = Append(messages, UserMessage(Join(text)))
                 /\ pc' = "request"
                 /\ turns' = turns + 1
                 /\ turn_start' = Len(messages)
                 /\ first_calls' = -1
                 /\ requests' = 0
                 /\ followups' = 0
                 /\ executions' = 0
       \/ /\ pc' = "crashed"
          /\ UNCHANGED <<user_input, messages, turns, turn_start, first_calls,
                         requests, followups, executions>>
    /\ UNCHANGED <<api_key, response_message, idx, function_name, function_args,
                   function_result, calls_left, total_requests, errors,
                   mode, client, last_request, current_voice>>

\* lines 188-203 and 236-242: the first request of the turn, with the tools;
\* it raises, or answers with a text or with tool calls
CreateCompletion ==
    /\ pc = "request"
    /\ requests' = requests + 1
    /\ total_requests' = total_requests + 1
    /\ last_request' = Request(messages, FUNCTION_TOOLS, "auto")
    /\ \/ /\ errors' = Append(errors, Printed("APIError"))
          /\ pc' = "input"
          /\ UNCHANGED <<messages, response_message, idx, calls_left, first_calls>>
       \/ \E resp \in Responses(calls_left) :
            /\ response_message' = resp
            /\ first_calls' = Len(resp.tool_calls)
            /\ calls_left' = calls_left - Len(resp.tool_calls)
            /\ IF resp.tool_calls # <<>>
               THEN /\ messages' = Append(messages, resp)
                    /\ idx' = 1
                    /\ pc' = "tools"
               ELSE /\ messages' = Append(messages, AssistantMessage(resp.content))
                    /\ pc' = "input"
                    /\ UNCHANGED idx
            /\ UNCHANGED errors
    /\ UNCHANGED <<api_key, user_input, function_name, function_args,
                   function_result, turns, turn_start, followups, executions,
                   mode, client, current_voice>>

\* ExecuteToolCall whose except clause takes back what the turn appended
\* after the user message
ExecuteToolCall_rollback ==
    /\ pc = "tools"
    /\ LET tool_call == response_message.tool_calls[idx]
           decoded == json_loads(tool_call.arguments)
           result == execute_function(tool_call.name, decoded)
       IN /\ function_name' = tool_call.name
          /\ IF decoded.raised
             THEN /\ errors' = Append(errors, Printed("JSONDecodeError"))
                  /\ pc' = "input"
                  /\ messages' = SubSeq(messages, 1, turn_start + 1)
                  /\ UNCHANGED <<function_args, function_result, executions, idx>>
             ELSE /\ function_args' = decoded
                  /\ executions' = executions + 1
                  /\ IF result.raised
                     THEN /\ errors' = Append(errors, Printed(result.exc))
                          /\ pc' = "input"
                          /\ messages' = SubSeq(messages, 1, turn_start + 1)
                          /\ UNCHANGED <<function_result, idx>>
                     ELSE /\ function_result' = result.value
                          /\ messages' =
                               Append(messages, ToolMessage(tool_call, result.value))
                          /\ idx' = idx + 1
                          /\ pc' = IF idx < Len(response_message.tool_calls)
                                   THEN "tools" ELSE "followup"
                          /\ UNCHANGED errors
    /\ UNCHANGED <<api_key, user_input, response_message, turns, calls_left,
                   turn_start, first_calls, requests, followups, total_requests,
                   mode, client, last_request, current_voice>>

\* lines 206-221: one iteration of the for loop; an exception of json.loads
\* or of execute_function leaves the try block for the except clause
ExecuteToolCall ==
    /\ pc = "tools"
    /\ LET tool_call == response_message.tool_calls[idx]
           decoded == json_loads(tool_call.arguments)
           result == execute_function(tool_call.name, decoded)
       IN /\ function_name' = tool_call.name
          /\ IF decoded.raised
             THEN /\ errors' = Append(errors, Printed("JSONDecodeError"))
                  /\ pc' = "input"
                  /\ UNCHANGED <<function_args, function_result, executions,
                                 messages, idx>>
             ELSE /\ function_args' = decoded
                  /\ executions' = executions + 1
                  /\ IF result.raised
                     THEN /\ errors' = Append(errors, Printed(result.exc))
                          /\ pc' = "input"
                          /\ UNCHANGED <<function_result, messages, idx>>
                     ELSE /\ function_result' = result.value
                          /\ messages' =
                               Append(messages, ToolMessage(tool_call, result.value))
                          /\ idx' = idx + 1
                          /\ pc' = IF idx < Len(response_message.tool_calls)
                                   THEN "tools" ELSE "followup"
                          /\ UNCHANGED errors
    /\ UNCHANGED <<api_key, user_input, response_message, turns, calls_left,
                   turn_start, first_calls, requests, followups, total_requests,
                   mode, client, last_request, current_voice>>

\* FollowUpRequest passing tools and tool_choice as the first request does
FollowUpRequest_with_tools ==
    /\ pc = "followup"
    /\ requests' = requests + 1
    /\ followups' = followups + 1
    /\ total_requests' = total_requests + 1
    /\ last_request' = Request(messages, FUNCTION_TOOLS, "auto")
    /\ \/ /\ errors' = Append(errors, Printed("APIError"))
          /\ UNCHANGED messages
       \/ /\ messages' = Append(messages, AssistantMessage("summary"))
          /\ UNCHANGED errors
    /\ pc' = "input"
    /\ UNCHANGED <<api_key, user_input, response_message, idx, function_name,
                   function_args, function_result, turns, calls_left, turn_start,
                   first_calls, executions, mode, client, current_voice>>

\* FollowUpRequest printing the final text without line 234, which appends
\* it to the conversation
FollowUpRequest_no_append ==
    /\ pc = "followup"
    /\ requests' = requests + 1
    /\ followups' = followups + 1
    /\ total_requests' = total_requests + 1
    /\ last_request' = Request(messages, <<>>, "")
    /\ \/ errors' = Append(errors, Printed("APIError"))
       \/ UNCHANGED errors
    /\ pc' = "input"
    /\ UNCHANGED <<api_key, user_input, response_message, idx, function_name,
                   function_args, function_result, turns, calls_left, turn_start,
                   first_calls, executions, mode, client, current_voice, messages>>

\* FollowUpRequest restoring the conversation of the turn's start when the
\* request raises
FollowUpRequest_rollback ==
    /\ pc = "followup"
    /\ requests' = requests + 1
    /\ followups' = followups + 1
    /\ total_requests' = total_requests + 1
    /\ last_request' = Request(messages, <<>>, "")
    /\ \/ /\ errors' = Append(errors, Printed("APIError"))
          /\ messages' = SubSeq(messages, 1, turn_start)
       \/ /\ messages' = Append(messages, AssistantMessage("summary"))
          /\ UNCHANGED errors
    /\ pc' = "input"
    /\ UNCHANGED <<api_key, user_input, response_message, idx, function_name,
                   function_args, function_result, turns, calls_left, turn_start,
                   first_calls, executions, mode, client, current_voice>>

\* lines 224-234: the second request, without tools; it raises or its text
\* is appended
FollowUpRequest ==
    /\ pc = "followup"
    /\ requests' = requests + 1
    /\ followups' = followups + 1
    /\ total_requests' = total_requests + 1
    /\ last_request' = Request(messages, <<>>, "")
    /\ \/ /\ errors' = Append(errors, Printed("APIError"))
          /\ UNCHANGED messages
       \/ /\ messages' = Append(messages, AssistantMessage("summary"))
          /\ UNCHANGED errors
    /\ pc' = "input"
    /\ UNCHANGED <<api_key, user_input, response_message, idx, function_name,
                   function_args, function_result, turns, calls_left, turn_start,
                   first_calls, executions, mode, client, current_voice>>

Next == Startup \/ ReadInput \/ CreateCompletion \/ ExecuteToolCall \/ FollowUpRequest

Spec == Init /\ [][Next]_vars

-----------------------------------------------------------------------------
(* The tool executor on every name and argument blob: the loop at line 206, *)
(* in a first turn whose response holds one tool call                       *)

ExecInit ==
    \E name \in AllNames, blob \in AllBlobs :
      LET resp == Msg("assistant", "", <<ToolCall(IdOf(1), name, blob)>>, NoId) IN
      /\ api_key = TRUE
      /\ pc = "tools"
      /\ messages = <<SystemMessage, UserMessage("15+7?"), resp>>
      /\ user_input = <<"1", "5", "+", "7", "?">>
      /\ response_message = resp
      /\ idx = 1
      /\ function_name = ""
      /\ function_args = JsonScalar(PyNone)
      /\ function_result = PyNone
      /\ turns = 1
      /\ calls_left = MaxCalls - 1
      /\ turn_start = 1
      /\ first_calls = 1
      /\ requests = 1
      /\ followups = 0
      /\ executions = 0
      /\ total_requests = 1
      /\ errors = <<>>
      /\ mode = "function_calling"
      /\ client = TRUE
      /\ last_request =
           Request(<<SystemMessage, UserMessage("15+7?")>>, FUNCTION_TOOLS, "auto")
      /\ current_voice = ""

ExecNext == ExecuteToolCall \/ FollowUpRequest

ExecSpec == ExecInit /\ [][ExecNext]_vars

-----------------------------------------------------------------------------
(* The loops of main() of src/src/main.py (chat), src/src/images.py and     *)
(* src/src/speech.py; one action handles a line from the prompt to the      *)
(* next prompt                                                               *)

Modes == {"function_calling", "chat", "image", "speech"}

\* where main() of a mode starts, and where it prompts
StartOf(m) ==
    IF m = "function_calling" THEN "start"
    ELSE IF m = "chat" THEN "chat_start"
    ELSE IF m = "image" THEN "image_start"
    ELSE "speech_start"

PromptOf(m) ==
    IF m = "function_calling" THEN "input"
    ELSE IF m = "chat" THEN "chat_input"
    ELSE IF m = "image" THEN "image_input"
    ELSE "speech_input"

\* images.py line 185, speech.py line 265
ReplExitCommands == ExitCommands \cup {"q"}

\* speech.py line 293
valid_voices == <<"alloy", "echo", "fable", "onyx", "nova", "shimmer">>

\* str.startswith
startswith(cs, prefix) == IsPrefix(prefix, cs)

\* cs[n:]
SliceFrom(cs, n) == SubSeq(cs, n + 1, Len(cs))

VoicePrefix == <<"v", "o", "i", "c", "e", " ">>

\* the lines typed at the prompt of images.py
ImageLines ==
    { <<>>,
      <<"q">>,
      <<" ", "Q", "u", "i", "T", " ">>,
      <<"H", "e", "l", "p">>,
      <<"r", "e", "c", "e", "n", "t">>,
      <<"c", "l", "e", "a", "r">>,
      <<"a", " ", "c", "a", "t">> }

\* the lines typed at the prompt of speech.py: commands, voice commands with
\* a valid name, a name in another case, an unknown name and no name, a text
SpeechLines ==
    { <<>>,
      <<"q">>,
      <<"H", "e", "l", "p">>,
      <<"r", "e", "c", "e", "n", "t">>,
      <<"c", "l", "e", "a", "r">>,
      <<"v", "o", "i", "c", "e", "s">>,
      <<"v", "o", "i", "c", "e", " ", "f", "a", "b", "l", "e">>,
      <<" ", "V", "O", "I", "C", "E", " ", " ", "N", "o", "v", "a", " ">>,
      <<"v", "o", "i", "c", "e", " ", "l", "o", "u", "d">>,
      <<"v", "o", "i", "c", "e">>,
      <<"a", " ", "p", "o", "e", "m">> }

\* what handling a text does: the requests it sends and the error it prints
\* ("" for none)
Outcome(n, e) == [requests |-> n, error |-> e]

\* main.py lines 49-71: the request raises, or its text is printed
ChatOutcomes == {Outcome(1, "APIError"), Outcome(1, "")}

\* images.py lines 208-228: generate_image fails (line 228), creating the
\* directory raises (line 212, to line 235), save_image fails (line 226), or
\* the image is saved
ImageOutcomes ==
    {Outcome(1, "ImageError"), Outcome(1, "OSError"),
     Outcome(1, "SaveImageError"), Outcome(1, "")}

\* speech.py lines 302-344: generate_transcript fails (line 344), the
\* transcript is empty (line 309), creating the folder raises (line 313, to
\* line 351), save_transcript fails (line 342), generate_and_save_audio fails
\* (line 340), or both files are saved
SpeechOutcomes ==
    {Outcome(1, "TranscriptError"), Outcome(1, "EmptyTranscript"),
     Outcome(1, "OSError"), Outcome(1, "SaveTranscriptError"),
     Outcome(2, "AudioError"), Outcome(2, "")}

\* the variables of the dispatch loop of function_calling.py
loop_vars ==
    <<api_key, messages, response_message, idx, function_name, function_args,
      function_result, calls_left, turn_start, first_calls, requests, followups,
      executions, mode, last_request>>

\* main.py lines 18-30
ChatStartup ==
    /\ pc = "chat_start"
    /\ IF api_key
       THEN /\ client' = TRUE
            /\ pc' = "chat_input"
            /\ UNCHANGED errors
       ELSE /\ errors' = Append(errors, Printed("NoAPIKey"))
            /\ pc' = "no_key"
            /\ UNCHANGED client
    /\ UNCHANGED <<loop_vars, user_input, turns, total_requests, current_voice>>

\* main.py lines 37-71: read a line (outside the try statement); an exit
\* word ends the loop, an empty line prompts again, any other text is sent
\* and the answer or the exception is printed
ChatLine ==
    /\ pc = "chat_input"
    /\ \/ \E line \in Lines :
            LET text == strip(line) IN
            /\ user_input' = text
            /\ IF Join(lower(text)) \in ExitCommands
               THEN /\ pc' = "done"
                    /\ UNCHANGED <<turns, total_requests, errors>>
               ELSE IF text = <<>>
               THEN /\ pc' = "chat_input"
                    /\ UNCHANGED <<turns, total_requests, errors>>
               ELSE /\ turns < MaxTurns
                    /\ turns' = turns + 1
                    /\ \E o \in ChatOutcomes :
                         /\ total_requests' = total_requests + o.requests
                         /\ errors' = IF o.error = "" THEN errors
                                      ELSE Append(errors, [turn |-> turns + 1,
                                                           exc |-> o.error])
                    /\ pc' = "chat_input"
       \/ /\ pc' = "crashed"
          /\ UNCHANGED <<user_input, turns, total_requests, errors>>
    /\ UNCHANGED <<loop_vars, client, current_voice>>

\* a failure printed while line `turn` is handled
PrintedAt(turn, e) == [turn |-> turn, exc |-> e]

\* images.py lines 145-172: without the key main returns; else the client is
\* created and list_recent_images (line 166, outside the try statement)
\* returns or raises
ImageStartup ==
    /\ pc = "image_start"
    /\ IF api_key
       THEN /\ client' = TRUE
            /\ pc' \in {"image_input", "crashed"}
            /\ UNCHANGED errors
       ELSE /\ errors' = Append(errors, Printed("NoAPIKey"))
            /\ pc' = "no_key"
            /\ UNCHANGED client
    /\ UNCHANGED <<loop_vars, user_input, turns, total_requests, current_voice>>

\* images.py lines 175-235: read a line and handle it, all inside the try
\* statement: an empty line, help, recent and clear print and prompt again
\* (recent and clear may raise), an exit word ends the loop, any other text
\* is a prompt for an image; an exception of input() is printed as any other
\* (line 234), a KeyboardInterrupt ends the loop (line 230)
ImageLine ==
    /\ pc = "image_input"
    /\ \/ \E line \in ImageLines :
            LET text == strip(line)
                low == Join(lower(text))
            IN /\ user_input' = text
               /\ IF text = <<>> \/ low = "help"
                  THEN /\ pc' = "image_input"
                       /\ UNCHANGED <<turns, total_requests, errors>>
                  ELSE IF low \in ReplExitCommands
                  THEN /\ pc' = "done"
                       /\ UNCHANGED <<turns, total_requests, errors>>
                  ELSE IF low \in {"recent", "clear"}
                  THEN /\ pc' = "image_input"
                       /\ UNCHANGED total_requests
                       /\ \/ UNCHANGED <<turns, errors>>
                          \/ /\ turns < MaxTurns
                             /\ turns' = turns + 1
                             /\ errors' = Append(errors, PrintedAt(turns + 1, "OSError"))
                  ELSE /\ turns < MaxTurns
                       /\ turns' = turns + 1
                       /\ pc' = "image_input"
                       /\ \E o \in ImageOutcomes :
                            /\ total_requests' = total_requests + o.requests
                            /\ errors' = IF o.error = "" THEN errors
                                         ELSE Append(errors, PrintedAt(turns + 1, o.error))
       \/ /\ turns < MaxTurns
          /\ turns' = turns + 1
          /\ errors' = Append(errors, PrintedAt(turns + 1, "EOFError"))
          /\ pc' = "image_input"
          /\ UNCHANGED <<user_input, total_requests>>
       \/ /\ pc' = "done"
          /\ UNCHANGED <<user_input, turns, total_requests, errors>>
    /\ UNCHANGED <<loop_vars, client, current_voice>>

\* SpeechStartup creating the client before the test of line 223
SpeechStartup_client_first ==
    /\ pc = "speech_start"
    /\ client' = TRUE
    /\ IF api_key
       THEN /\ current_voice' = "alloy"
            /\ pc' \in {"speech_input", "crashed"}
            /\ UNCHANGED errors
       ELSE /\ errors' = Append(errors, Printed("NoAPIKey"))
            /\ pc' = "no_key"
            /\ UNCHANGED current_voice
    /\ UNCHANGED <<loop_vars, user_input, turns, total_requests>>

\* speech.py lines 219-252: without the key main returns; else the client is
\* created, the voice is alloy, and list_recent_tasks (line 245, outside the
\* try statement) returns or raises
SpeechStartup ==
    /\ pc = "speech_start"
    /\ IF api_key
       THEN /\ client' = TRUE
            /\ current_voice' = "alloy"
            /\ pc' \in {"speech_input", "crashed"}
            /\ UNCHANGED errors
       ELSE /\ errors' = Append(errors, Printed("NoAPIKey"))
            /\ pc' = "no_key"
            /\ UNCHANGED <<client, current_voice>>
    /\ UNCHANGED <<loop_vars, user_input, turns, total_requests>>

\* SpeechLine without the test of line 294
SpeechLine_any_voice ==
    /\ pc = "speech_input"
    /\ \/ \E line \in SpeechLines :
            LET text == strip(line)
                low == Join(lower(text))
                voice_name == Join(lower(strip(SliceFrom(text, 6))))
            IN /\ user_input' = text
               /\ IF text = <<>> \/ low \in {"help", "voices"}
                  THEN /\ pc' = "speech_input"
                       /\ UNCHANGED <<turns, total_requests, errors, current_voice>>
                  ELSE IF low \in ReplExitCommands
                  THEN /\ pc' = "done"
                       /\ UNCHANGED <<turns, total_requests, errors, current_voice>>
                  ELSE IF low \in {"recent", "clear"}
                  THEN /\ pc' = "speech_input"
                       /\ UNCHANGED <<total_requests, current_voice>>
                       /\ \/ UNCHANGED <<turns, errors>>
                          \/ /\ turns < MaxTurns
                             /\ turns' = turns + 1
                             /\ errors' = Append(errors, PrintedAt(turns + 1, "OSError"))
                  ELSE IF startswith(lower(text), VoicePrefix)
                  THEN /\ current_voice' = voice_name
                       /\ pc' = "speech_input"
                       /\ UNCHANGED <<turns, total_requests, errors>>
                  ELSE /\ turns < MaxTurns
                       /\ turns' = turns + 1
                       /\ pc' = "speech_input"
                       /\ \E o \in SpeechOutcomes :
                            /\ total_requests' = total_requests + o.requests
                            /\ errors' = IF o.error = "" THEN errors
                                         ELSE Append(errors, PrintedAt(turns + 1, o.error))
                       /\ UNCHANGED current_voice
       \/ /\ turns < MaxTurns
          /\ turns' = turns + 1
          /\ errors' = Append(errors, PrintedAt(turns + 1, "EOFError"))
          /\ pc' = "speech_input"
          /\ UNCHANGED <<user_input, total_requests, current_voice>>
       \/ /\ pc' = "done"
          /\ UNCHANGED <<user_input, turns, total_requests, errors, current_voice>>
    /\ UNCHANGED <<loop_vars, client>>

\* speech.py lines 255-351: read a line and handle it, all inside the try
\* statement: an empty line, help, voices, recent and clear print and prompt
\* again (recent and clear may raise), an exit word ends the loop, a line
\* starting with 'voice ' sets the voice when the name is valid, any other
\* text is a prompt for a transcript and its audio; an exception of input()
\* is printed as any other (line 350), a KeyboardInterrupt ends the loop
\* (line 346)
SpeechLine ==
    /\ pc = "speech_input"
    /\ \/ \E line \in SpeechLines :
            LET text == strip(line)
                low == Join(lower(text))
                voice_name == Join(lower(strip(SliceFrom(text, 6))))
            IN /\ user_input' = text
               /\ IF text = <<>> \/ low \in {"help", "voices"}
                  THEN /\ pc' = "speech_input"
                       /\ UNCHANGED <<turns, total_requests, errors, current_voice>>
                  ELSE IF low \in ReplExitCommands
                  THEN /\ pc' = "done"
                       /\ UNCHANGED <<turns, total_requests, errors, current_voice>>
                  ELSE IF low \in {"recent", "clear"}
                  THEN /\ pc' = "speech_input"
                       /\ UNCHANGED <<total_requests, current_voice>>
                       /\ \/ UNCHANGED <<turns, errors>>
                          \/ /\ turns < MaxTurns
                             /\ turns' = turns + 1
                             /\ errors' = Append(errors, PrintedAt(turns + 1, "OSError"))
                  ELSE IF startswith(lower(text), VoicePrefix)
                  THEN /\ current_voice' =
                            IF \E k \in DOMAIN valid_voices : valid_voices[k] = voice_name
                            THEN voice_name ELSE current_voice
                       /\ pc' = "speech_input"
                       /\ UNCHANGED <<turns, total_requests, errors>>
                  ELSE /\ turns < MaxTurns
                       /\ turns' = turns + 1
                       /\ pc' = "speech_input"
                       /\ \E o \in SpeechOutcomes :
                            /\ total_requests' = total_requests + o.requests
                            /\ errors' = IF o.error = "" THEN errors
                                         ELSE Append(errors, PrintedAt(turns + 1, o.error))
                       /\ UNCHANGED current_voice
       \/ /\ turns < MaxTurns
          /\ turns' = turns + 1
          /\ errors' = Append(errors, PrintedAt(turns + 1, "EOFError"))
          /\ pc' = "speech_input"
          /\ UNCHANGED <<user_input, total_requests, current_voice>>
       \/ /\ pc' = "done"
          /\ UNCHANGED <<user_input, turns, total_requests, errors, current_voice>>
    /\ UNCHANGED <<loop_vars, client>>

\* one of the four programs is started, with or without the key
ReplInit ==
    /\ api_key \in BOOLEAN
    /\ mode \in Modes
    /\ pc = StartOf(mode)
    /\ messages = <<>>
    /\ user_input = <<>>
    /\ response_message = NoResponse
    /\ idx = 0
    /\ function_name = ""
    /\ function_args = JsonScalar(PyNone)
    /\ function_result = PyNone
    /\ turns = 0
    /\ calls_left = MaxReplCalls
    /\ turn_start = 0
    /\ first_calls = -1
    /\ requests = 0
    /\ followups = 0
    /\ executions = 0
    /\ total_requests = 0
    /\ errors = <<>>
    /\ client = FALSE
    /\ last_request = NoRequest
    /\ current_voice = ""

ReplNext ==
    \/ Next
    \/ ChatStartup \/ ChatLine
    \/ ImageStartup \/ ImageLine
    \/ SpeechStartup \/ SpeechLine

ReplSpec == ReplInit /\ [][ReplNext]_vars

-----------------------------------------------------------------------------
(* Properties of the dispatch loop *)

\* the loop is between two turns, or has left
TurnOver == pc \in {"input", "done"}

\* the turn printed exception e
PrintedInTurn(e) == \E k \in DOMAIN errors : errors[k] = [turn |-> turns, exc |-> e]

HasToolCalls(m) == m.role = "assistant" /\ m.tool_calls # <<>>

\* the requests of the assistant message at p are answered one-to-one by the
\* messages that follow it
AnsweredAt(p) ==
    LET calls == messages[p].tool_calls
        n == Len(calls)
    IN /\ p + n <= Len(messages)
       /\ \A k \in 1 .. n :
            /\ messages[p + k].role = "tool"
            /\ messages[p + k].tool_call_id = calls[k].id
       /\ p + n < Len(messages) => messages[p + n + 1].role # "tool"

\* the tool message at q answers a request of the most recent assistant
\* message with tool calls before it
RequestedAt(q) ==
    \E p \in 1 .. q - 1 :
      /\ HasToolCalls(messages[p])
      /\ \A r \in p + 1 .. q - 1 : ~HasToolCalls(messages[r])
      /\ \E k \in DOMAIN messages[p].tool_calls :
           messages[p].tool_calls[k].id = messages[q].tool_call_id

\* C1: once a turn is over, each assistant message with N tool calls is
\* followed by exactly N tool messages carrying the ids of its requests in
\* order, and every tool message answers a request of the most recent
\* assistant message with tool calls.
C1_ToolCallsAnsweredOneToOne ==
    TurnOver =>
      /\ \A p \in DOMAIN messages : HasToolCalls(messages[p]) => AnsweredAt(p)
      /\ \A q \in DOMAIN messages : messages[q].role = "tool" => RequestedAt(q)

\* C2: once a turn that got a first response is over, a response with no
\* tool call led to one request and no follow-up, and a response with N >= 1
\* tool calls led to N tool executions and one follow-up request.
C2_RequestsAndExecutionsPerTurn ==
    (TurnOver /\ turns > 0 /\ first_calls >= 0) =>
      IF first_calls = 0
      THEN requests = 1 /\ followups = 0 /\ executions = 0
      ELSE executions = first_calls /\ followups = 1 /\ requests = 2

\* C3: a tool call whose arguments cannot be decoded does not abort the
\* turn: once the turn is over the call has its tool message, with its id,
\* and the follow-up request was issued.
C3_UndecodableArgumentsFedBack ==
    (TurnOver /\ turns > 0 /\ first_calls > 0) =>
      \A k \in DOMAIN response_message.tool_calls :
        json_loads(response_message.tool_calls[k].arguments).raised =>
          /\ ~PrintedInTurn("JSONDecodeError")
          /\ turn_start + 2 + k <= Len(messages)
          /\ messages[turn_start + 2 + k].role = "tool"
          /\ messages[turn_start + 2 + k].tool_call_id =
               response_message.tool_calls[k].id
          /\ followups = 1

\* the tool call processed by the for loop in a turn with one tool call
TheCall == response_message.tool_calls[1]

\* the iteration of the for loop on the only tool call has ended
CallProcessed == pc # "tools" /\ first_calls = 1

Registered(name) == \E k \in DOMAIN FUNCTION_TOOLS : FUNCTION_TOOLS[k] = name

\* C4: execute_function returns for a registered name and any arguments
\* mapping (a decoded JSON object): no exception leaves it, so nothing is
\* printed by the except clause and the result is the content of the call's
\* tool message.
C4_ExecuteFunctionNeverRaises ==
    (CallProcessed /\ executions = 1 /\ Registered(function_name)
       /\ function_args.isDict) =>
      /\ ~execute_function(function_name, function_args).raised
      /\ errors = <<>>
      /\ Len(messages) >= turn_start + 3
      /\ messages[turn_start + 3].role = "tool"
      /\ messages[turn_start + 3].content = str(function_result)

\* C5: after a turn in which a model request failed, no assistant message
\* appended by that turn is left in the conversation, and the loop is back
\* at the prompt.
C5_FailedRequestLeavesNoAssistantMessage ==
    (pc # "start" /\ turns > 0 /\ PrintedInTurn("APIError")) =>
      /\ pc \in {"input", "done"}
      /\ \A p \in turn_start + 1 .. Len(messages) : messages[p].role # "assistant"

\* C6: a tool call with a name that is not registered raises nothing,
\* whatever its arguments: its tool message holds the unknown-function text
\* and its id, and the follow-up request comes next.
C6_UnknownToolFedBack ==
    (CallProcessed /\ ~Registered(TheCall.name)) =>
      /\ errors = <<>> \/ errors = <<Printed("APIError")>>
      /\ Len(messages) >= turn_start + 3
      /\ messages[turn_start + 3] =
           Msg("tool", UnknownFunctionText(TheCall.name), <<>>, TheCall.id)
      /\ pc = "followup" \/ followups = 1

\* the decoded arguments of a call are an object holding ints a and b
NumericArgs(call) ==
    LET args == json_loads(call.arguments)
    IN /\ ~args.raised /\ args.isDict
       /\ {"a", "b"} \subseteq DOMAIN args.d
       /\ args.d["a"].t = "int" /\ args.d["b"].t = "int"

ArgA(call) == json_loads(call.arguments).d["a"].n
ArgB(call) == json_loads(call.arguments).d["b"].n

\* no exception of the tool loop was printed
NoToolError == \A k \in DOMAIN errors : errors[k].exc = "APIError"

\* C7: divide(a, 0) with a numeric a returns the division-by-zero text as a
\* value, nothing is raised, and the text is the content of the call's tool
\* message.
C7_DivideByZeroIsAResult ==
    (CallProcessed /\ TheCall.name = "divide" /\ NumericArgs(TheCall)
       /\ ArgB(TheCall) = 0) =>
      /\ function_result = PyStr("Error: Division by zero")
      /\ NoToolError
      /\ Len(messages) >= turn_start + 3
      /\ messages[turn_start + 3] =
           Msg("tool", "Error: Division by zero", <<>>, TheCall.id)

C7_Witness ==
    /\ pc = "followup" /\ first_calls = 1
    /\ TheCall.name = "divide" /\ NumericArgs(TheCall)
    /\ ArgA(TheCall) = 15 /\ ArgB(TheCall) = 0
    /\ messages[Len(messages)].content = "Error: Division by zero"

\* C8: for a registered name and numeric a, b (b # 0 for divide) the result
\* of execute_function is a+b, a-b, a*b, or the quotient a/b, in that order
\* of the arguments.
C8_ArithmeticCorrect ==
    (CallProcessed /\ Registered(TheCall.name) /\ NumericArgs(TheCall)
       /\ (TheCall.name = "divide" => ArgB(TheCall) # 0)) =>
      LET a == ArgA(TheCall)
          b == ArgB(TheCall)
          r == function_result
      IN /\ NoToolError
         /\ TheCall.name = "add" => r = PyInt(a + b)
         /\ TheCall.name = "subtract" => r = PyInt(a - b)
         /\ TheCall.name = "multiply" => r = PyInt(a * b)
         /\ TheCall.name = "divide" =>
              r.t = "float" /\ r.d > 0 /\ r.n * b = a * r.d

C8_Witness ==
    /\ pc = "followup" /\ first_calls = 1
    /\ TheCall.name = "divide" /\ NumericArgs(TheCall)
    /\ ArgA(TheCall) = 100 /\ ArgB(TheCall) = 4
    /\ function_result = PyFloat(25, 1)
    /\ messages[Len(messages)].content = "25.0"

\* C9: the conversation is created as the one system message, and every
\* step leaves the conversation it found as a prefix of the one it leaves.
C9_ConversationAppendOnly ==
    [][ /\ (pc = "start" /\ pc' = "input") => messages' = <<SystemMessage>>
        /\ IsPrefix(messages, messages') ]_vars

C9_Witness ==
    /\ pc = "done" /\ turns = 2
    /\ \E k \in DOMAIN errors : errors[k].turn = 1
    /\ Len(messages) >= 6

QuitInput == {<<"q", "u", "i", "t">>}

\* C10: a step that reads 'quit' ends the loop, a step that reads an empty
\* or blank line prompts again, and either leaves the conversation as it was
\* and issues no model request.
C10_QuitAndEmptyInputChangeNothing ==
    [][ (pc = "input" /\ pc' # "crashed") =>
          /\ user_input' \in QuitInput =>
               pc' = "done" /\ messages' = messages
               /\ total_requests' = total_requests
          /\ user_input' = <<>> =>
               pc' = "input" /\ messages' = messages
               /\ total_requests' = total_requests ]_vars

C10_Witness ==
    /\ pc = "done" /\ user_input \in QuitInput
    /\ turns >= 1 /\ Len(messages) >= 3

\* nothing was printed by the except clause in the current turn
NothingFailed == \A k \in DOMAIN errors : errors[k].turn # turns

\* C11: once a turn in which nothing failed is over, a response with N >= 1
\* tool calls left exactly N + 3 new messages, in the order user, assistant
\* with the N tool calls, N tool messages, assistant text, and a response
\* with no tool call left exactly 2, user then assistant; for the one call
\* add(a=15, b=7) the tool message holds "22".
C11_MessagesAppendedPerTurn ==
    (TurnOver /\ turns > 0 /\ first_calls >= 0 /\ NothingFailed) =>
      LET n == first_calls IN
      /\ messages[turn_start + 1].role = "user"
      /\ IF n = 0
         THEN /\ Len(messages) = turn_start + 2
              /\ messages[turn_start + 2].role = "assistant"
              /\ messages[turn_start + 2].tool_calls = <<>>
         ELSE /\ Len(messages) = turn_start + n + 3
              /\ messages[turn_start + 2] = response_message
              /\ Len(messages[turn_start + 2].tool_calls) = n
              /\ \A k \in 1 .. n :
                   /\ messages[turn_start + 2 + k].role = "tool"
                   /\ messages[turn_start + 2 + k].tool_call_id =
                        response_message.tool_calls[k].id
              /\ messages[turn_start + n + 3].role = "assistant"
              /\ messages[turn_start + n + 3].tool_calls = <<>>
      /\ (n = 1 /\ TheCall.name = "add" /\ NumericArgs(TheCall)
            /\ ArgA(TheCall) = 15 /\ ArgB(TheCall) = 7) =>
           messages[turn_start + 3].content = "22"

C11_Witness ==
    /\ pc = "input" /\ turns = 1 /\ first_calls = 1 /\ NothingFailed
    /\ TheCall.name = "add" /\ ArgA(TheCall) = 15 /\ ArgB(TheCall) = 7
    /\ Len(messages) = 5
    /\ messages[1] = SystemMessage
    /\ messages[4] = Msg("tool", "22", <<>>, TheCall.id)
    /\ messages[5] = AssistantMessage("summary")

\* C14: in a turn whose response carries tool calls, the response is in the
\* conversation, right after the user message, when a tool call is about to
\* be processed, and it is there unchanged in every later state of the
\* turn, whether the tools returned, raised or could not be decoded.
C14_AssistantRequestKeptThroughExecution ==
    /\ [](first_calls > 0 =>
            /\ HasToolCalls(response_message)
            /\ Len(messages) >= turn_start + 2
            /\ messages[turn_start + 2] = response_message)
    /\ [][ ((pc = "tools" /\ pc' # "tools") \/ executions' # executions) =>
            /\ messages[turn_start + 2] = response_message
            /\ messages'[turn_start + 2] = response_message ]_vars

C14_Witness ==
    /\ pc = "input" /\ first_calls = 2 /\ executions = 1
    /\ PrintedInTurn("JSONDecodeError")
    /\ Len(messages) = turn_start + 3
    /\ messages[turn_start + 2] = response_message
    /\ messages[turn_start + 3].role = "tool"

\* C15: the first request of a turn carries the whole conversation, ending
\* with the user message, every tool of FUNCTION_TOOLS and tool_choice
\* "auto"; the follow-up request is sent only when each of the N tool calls
\* has its tool message, carries the conversation with these and no tools,
\* and its response is appended as text only, without executing anything;
\* so a turn sends at most two requests and executes at most N tools.
C15_FirstRequestThenOneFollowUp ==
    /\ [](requests <= 2 /\ followups <= 1
           /\ executions <= (IF first_calls > 0 THEN first_calls ELSE 0))
    /\ [][ total_requests' # total_requests =>
            /\ last_request'.messages = messages
            /\ messages[1] = SystemMessage
            /\ IF requests = 0
               THEN /\ Len(messages) = turn_start + 1
                    /\ messages[Len(messages)].role = "user"
                    /\ last_request'.tools = FUNCTION_TOOLS
                    /\ last_request'.tool_choice = "auto"
               ELSE /\ requests = 1 /\ first_calls > 0
                    /\ executions = first_calls
                    /\ Len(messages) = turn_start + 2 + first_calls
                    /\ AnsweredAt(turn_start + 2)
                    /\ last_request'.tools = <<>>
                    /\ last_request'.tool_choice = ""
                    /\ executions' = executions
                    /\ pc' = "input"
                    /\ \/ messages' = messages
                       \/ /\ Len(messages') = Len(messages) + 1
                          /\ SubSeq(messages', 1, Len(messages)) = messages
                          /\ messages'[Len(messages')].role = "assistant"
                          /\ messages'[Len(messages')].tool_calls = <<>> ]_vars

C15_Witness ==
    /\ pc = "input" /\ first_calls = 2 /\ requests = 2 /\ executions = 2
    /\ last_request.tools = <<>>
    /\ Len(last_request.messages) = turn_start + 4
    /\ last_request.messages[turn_start + 2] = response_message
    /\ messages = Append(last_request.messages, AssistantMessage("summary"))

\* the tool message of the only call holds the unknown-function text
UnknownFunctionResult ==
    /\ Len(messages) >= turn_start + 3
    /\ messages[turn_start + 3] =
         Msg("tool", UnknownFunctionText(TheCall.name), <<>>, TheCall.id)

\* C16: the names of FUNCTION_TOOLS are pairwise distinct; the request that
\* brought the tool call advertised exactly FUNCTION_TOOLS; and, once
\* execute_function was called for the call, its outcome is the
\* unknown-function text exactly when the name is not one of FUNCTION_TOOLS.
C16_AdvertisedNamesAreDispatchedNames ==
    /\ \A j, k \in DOMAIN FUNCTION_TOOLS :
         j # k => FUNCTION_TOOLS[j] # FUNCTION_TOOLS[k]
    /\ followups = 0 => last_request.tools = FUNCTION_TOOLS
    /\ (CallProcessed /\ executions = 1) =>
         (Registered(TheCall.name) <=> ~UnknownFunctionResult)

C16_Witness ==
    /\ CallProcessed /\ executions = 1
    /\ TheCall.name = "Add"
    /\ function_args.isDict
    /\ messages[turn_start + 3].content = "Error: Unknown function Add"
    /\ last_request.tools = FUNCTION_TOOLS

-----------------------------------------------------------------------------
(* Properties of the four programs *)

\* a step that prints an error is the refusal to start without the key, or
\* ends at the prompt of its program
ErrorReturnsToPrompt ==
    errors' # errors =>
      \/ pc' = PromptOf(mode)
      \/ pc = StartOf(mode) /\ ~api_key /\ pc' = "no_key"

\* every failure of handling a line (request, tool, file) is printed and the
\* program prompts again
HandledErrorsReturnToPrompt == [][ErrorReturnsToPrompt]_vars

\* C12: in each of the four programs a step that reports an error ends at
\* the prompt, unless it is the refusal to start without the API key, and
\* no step ends the program by an exception that leaves main.
C12_OnlyMissingKeyEndsOnError ==
    [][ErrorReturnsToPrompt /\ pc' # "crashed"]_vars

\* C13: in each of the four programs, without the API key main prints the
\* error and returns: it never is at a prompt, no line is read, no client is
\* created, no request is sent and no conversation is created.
C13_NoKeyNoLoop ==
    ~api_key =>
      /\ pc \in {StartOf(mode), "no_key"}
      /\ ~client
      /\ total_requests = 0 /\ last_request = NoRequest
      /\ user_input = <<>> /\ turns = 0
      /\ messages = <<>>
      /\ errors = IF pc = "no_key" THEN <<PrintedAt(0, "NoAPIKey")>> ELSE <<>>

C13_Witness ==
    /\ mode = "speech" /\ ~api_key /\ pc = "no_key"
    /\ errors = <<PrintedAt(0, "NoAPIKey")>>
    /\ ~client /\ current_voice = ""

ValidVoices == {valid_voices[k] : k \in DOMAIN valid_voices}

\* the line is 'voice <name>', in any case
IsVoiceCommand(text) == startswith(lower(text), VoicePrefix)

\* the name of a voice command, in lower case
VoiceNameOf(text) == Join(lower(strip(SliceFrom(text, Len(VoicePrefix)))))

\* C17: in speech.py the voice is one of the six valid voices once main has
\* set it, alloy at first; a step that leaves a 'voice <name>' line as the
\* input sets the voice to a valid name and leaves it unchanged for any
\* other name, sending no request; every other step leaves the voice
\* unchanged.
C17_CurrentVoiceIsValid ==
    /\ []((mode = "speech" /\ pc \in {"speech_input", "done"}) =>
            current_voice \in ValidVoices)
    /\ [][ (pc = "speech_start" /\ pc' = "speech_input") =>
            current_voice' = "alloy" ]_vars
    /\ [][ (mode = "speech" /\ pc = "speech_input") =>
            IF IsVoiceCommand(user_input')
            THEN /\ total_requests' = total_requests
                 /\ current_voice' = IF VoiceNameOf(user_input') \in ValidVoices
                                      THEN VoiceNameOf(user_input')
                                      ELSE current_voice
            ELSE current_voice' = current_voice ]_vars

C17_Witness ==
    /\ mode = "speech" /\ pc = "speech_input"
    /\ user_input = <<"V", "O", "I", "C", "E", " ", " ", "N", "o", "v", "a">>
    /\ current_voice = "nova"
    /\ turns = 1 /\ total_requests = 2

====
